---- MODULE Spec2Model ----
(***************************************************************************)
(* Model of the two utilities of src/quests/js-native-throttling.js:       *)
(*   - createAsyncQueue({concurrency}): the concurrency-limited task queue *)
(*   - throttle(func, wait, {leading, trailing}): the throttled function   *)
(* of the React examples of src/over-react/src/form:                       *)
(*   - useSomeHook: the counter hook                                       *)
(*   - Form: the input box and its list of items                           *)
(* and of retryOperation of src/bit-advanced/currying.js.                  *)
(* Each has its own specification: Spec (the queue), ThrottleSpec (the     *)
(* throttled function), HookSpec, FormSpec and RetrySpec.                  *)
(***************************************************************************)
EXTENDS Integers, Sequences, FiniteSets, TLC

\* ---------------------------------------------------------------- bounds
MaxTasks == 3
MaxConcurrency == 2
MaxWait == 2
MaxTime == 3
MaxCalls == 5
MaxCount == 12
MaxLen == 2
MaxItems == 2
MaxRetries == 3

\* Every promise made by Promise.resolve() is resolved from birth; they all
\* stand under one id.
AlreadyResolved == -1

\* No promise: the watched onIdle() call has not been made yet.
NoPromise == -2

TaskIds == 1..MaxTasks

\* No task: none of the tasks runNext calls in this step throws.
NoTask == 0

\* The choices of the task whose call throws in a step.
Throwers == {NoTask} \cup TaskIds

\* No pending timer, and the null/undefined of lastTime.
NoTimer == -1
NoTime == -1

\* No setCount call is waiting for the next render.
NoUpdate == -1

\* The values operation can resolve to and the errors it can fail with.
Values == {"v1", "v2"}
Errors == {"e1", "e2"}

\* lastError before any attempt failed (undefined), and no outcome yet.
Undefined == "undefined"
Pending == [kind |-> "pending", val |-> Undefined]

\* The strings typed into the input box: sequences of characters.
Chars == {" ", "a"}
RECURSIVE StringsOfLen(_)
StringsOfLen(n) ==
    IF n = 0 THEN {<<>>}
    ELSE {Append(str, c) : str \in StringsOfLen(n - 1), c \in Chars}
Strings == UNION {StringsOfLen(n) : n \in 0..MaxLen}

\* ------------------------------------------------------- async queue state
VARIABLES
    concurrency,    \* the option given to createAsyncQueue
    taskQueue,      \* pending tasks, oldest first (task ids)
    runningTasks,   \* the counter of executing tasks
    isPaused,
    idlePromise,    \* id of the promise onIdle() hands out
    resolveIdle,    \* id of the promise the stored resolver resolves
    onError,        \* TRUE iff throttledQueue.onError is a function
    added,          \* number of tasks passed to add(); task ids are 1..added
    inFlight,       \* started tasks whose promise has not settled
    settled,        \* tasks whose then/catch handler ran, finally pending
    resolved,       \* ids of resolved promises
    nextPromise,    \* next fresh promise id
    \* observation of the run (written, never read, by the operations)
    startOrder,     \* tasks in the order runNext called them
    completed,      \* tasks whose finally handler ran
    dropped,        \* tasks removed by clear()
    errorCalls,     \* errorCalls[t]: invocations of onError for task t
    failedHandled,  \* tasks that failed while onError was a function
    watched,        \* the promise one watched onIdle() call returned
    idleSeen,       \* TRUE iff the queue was idle at or after that call
    addedSince,     \* TRUE iff add() was called after that call
    resumeStarts,   \* the most tasks one call of resume() has started
    thrown          \* tasks whose call threw (the exception left the operation)

queueVars == <<concurrency, taskQueue, runningTasks, isPaused, idlePromise,
               resolveIdle, onError, added, inFlight, settled, resolved,
               nextPromise, startOrder, completed, dropped, errorCalls,
               failedHandled, watched, idleSeen, addedSince, resumeStarts,
               thrown>>

\* ---------------------------------------------------------- throttle state
VARIABLES
    leading, trailing,  \* the options given to throttle
    wait,               \* the wait given to throttle, in ms
    now,                \* the clock, in ms
    inThrottle,         \* TRUE iff the flag is truthy (it starts undefined)
    lastFn,             \* TRUE iff lastFn holds func (it starts undefined)
    lastTime,           \* Date.now() of the call that stored lastFn, or NoTime
    timeoutId,          \* the deadline of the pending timer, or NoTimer
    timerCall,          \* the call whose context and args the timer callback holds
    timers,             \* the pending timers of the environment: [deadline, call]
    calls,              \* number of calls of the throttled function; ids 1..calls
    \* observation of the run
    invocations,        \* the invocations of func: [at, call, edge], edge "leading" or "trailing"
    cancelled,          \* TRUE iff cancel() has been called
    openedAt,           \* time of the call that opened the current throttle period, or NoTime
    inWindow,           \* number of calls received in that period after the opening one
    cancelledAt         \* number of calls made before the last cancel()

throttleVars == <<leading, trailing, wait, now, inThrottle, lastFn, lastTime,
                  timeoutId, timerCall, timers, calls, invocations, cancelled,
                  openedAt, inWindow, cancelledAt>>

\* ------------------------------------------------------- useSomeHook state
VARIABLES
    count,          \* the count returned by the latest render of the hook
    pendingCount,   \* the value of the latest setCount call not yet rendered, or NoUpdate
    heldCount,      \* the count closed over by the increment function the caller holds
    \* observation of the run
    countBefore,    \* the rendered count at the latest increment() call
    callsSince      \* increment() calls since the latest render (2 stands for 2 or more)

hookVars == <<count, pendingCount, heldCount, countBefore, callsSince>>

\* --------------------------------------------------------------- Form state
VARIABLES
    inputString,    \* the inputString state, shown as the value of the input box
    list            \* the list state, shown as the list items

formVars == <<inputString, list>>

reactVars == <<hookVars, formVars>>

\* ---------------------------------------------------- retryOperation state
VARIABLES
    maxRetries,     \* the first argument of retryOperation
    loopI,          \* the loop variable i
    lastError,      \* the error caught last, or Undefined
    retryPc,        \* "awaiting" operation, in "backoff", "returned" or "threw"
    outcome,        \* how the promise of retryOperation settled, or Pending
    \* observation of the run
    invoked,        \* number of calls of operation
    attempts,       \* the outcomes of the settled calls of operation, in order
    delays          \* the backoff delays started, in ms

retryVars == <<maxRetries, loopI, lastError, retryPc, outcome, invoked,
               attempts, delays>>

vars == <<queueVars, throttleVars, reactVars, retryVars>>

Min(a, b) == IF a < b THEN a ELSE b

Range(s) == {s[i] : i \in 1..Len(s)}

\* The state runNext works on, as a record.
RunState == [q |-> taskQueue, n |-> runningTasks, fl |-> inFlight,
             so |-> startOrder, threw |-> FALSE]

\* runNext without the capacity test.
RECURSIVE runNextNoLimit(_, _, _)
runNextNoLimit(thr, paused, s) ==
    IF paused \/ Len(s.q) = 0
    THEN s
    ELSE LET task == Head(s.q)
             s1 == [s EXCEPT !.q = Tail(s.q), !.n = s.n + 1,
                             !.so = Append(s.so, task)]
         IN IF task = thr
            THEN [s1 EXCEPT !.threw = TRUE]
            ELSE runNextNoLimit(thr, paused, [s1 EXCEPT !.fl = s1.fl \cup {task}])

\* runNext taking the newest pending task (pop) instead of the oldest (shift).
RECURSIVE runNextNewest(_, _, _)
runNextNewest(thr, paused, s) ==
    IF paused \/ s.n >= concurrency \/ Len(s.q) = 0
    THEN s
    ELSE LET task == s.q[Len(s.q)]
             s1 == [s EXCEPT !.q = SubSeq(s.q, 1, Len(s.q) - 1), !.n = s.n + 1,
                             !.so = Append(s.so, task)]
         IN IF task = thr
            THEN [s1 EXCEPT !.threw = TRUE]
            ELSE runNextNewest(thr, paused, [s1 EXCEPT !.fl = s1.fl \cup {task}])

\* runNext without the isPaused test.
RECURSIVE runNextIgnoringPause(_, _, _)
runNextIgnoringPause(thr, paused, s) ==
    IF s.n >= concurrency \/ Len(s.q) = 0
    THEN s
    ELSE LET task == Head(s.q)
             s1 == [s EXCEPT !.q = Tail(s.q), !.n = s.n + 1,
                             !.so = Append(s.so, task)]
         IN IF task = thr
            THEN [s1 EXCEPT !.threw = TRUE]
            ELSE runNextIgnoringPause(thr, paused, [s1 EXCEPT !.fl = s1.fl \cup {task}])

\* runNext starting one task per call (no recursive refill).
runNextOnce(thr, paused, s) ==
    IF paused \/ s.n >= concurrency \/ Len(s.q) = 0
    THEN s
    ELSE LET task == Head(s.q)
             s1 == [s EXCEPT !.q = Tail(s.q), !.n = s.n + 1,
                             !.so = Append(s.so, task)]
         IN IF task = thr
            THEN [s1 EXCEPT !.threw = TRUE]
            ELSE [s1 EXCEPT !.fl = s1.fl \cup {task}]

\* runNext: start pending tasks, oldest first, while there is capacity.
\* thr is the task whose call throws instead of returning a promise (NoTask:
\* every call returns). A throw ends runNext (and its callers) at once, after
\* the task was shifted off the queue and counted as running.
RECURSIVE runNext(_, _, _)
runNext(thr, paused, s) ==
    IF paused \/ s.n >= concurrency \/ Len(s.q) = 0
    THEN s
    ELSE LET task == Head(s.q)
             s1 == [s EXCEPT !.q = Tail(s.q), !.n = s.n + 1,
                             !.so = Append(s.so, task)]
         IN IF task = thr
            THEN [s1 EXCEPT !.threw = TRUE]
            ELSE runNext(thr, paused, [s1 EXCEPT !.fl = s1.fl \cup {task}])

\* The task whose call threw in a run of runNext that ended by an exception.
Thrower(s) == s.so[Len(s.so)]

\* Bookkeeping shared by every step: has the queue been idle (no task
\* running, none pending) since the watched promise was returned.
Observe ==
    idleSeen' = (/\ watched' # NoPromise
                 /\ idleSeen \/ (runningTasks' = 0 /\ Len(taskQueue') = 0))

\* A throwing task called while onError is a function is a failing task.
NoteThrow(s) ==
    /\ thrown' = IF s.threw THEN thrown \cup {Thrower(s)} ELSE thrown
    /\ failedHandled' = IF s.threw /\ onError
                        THEN failedHandled \cup {Thrower(s)} ELSE failedHandled

\* The state right after createAsyncQueue({concurrency}).
QueueCreated(c) ==
    /\ concurrency = c
    /\ taskQueue = <<>>
    /\ runningTasks = 0
    /\ isPaused = FALSE
    /\ idlePromise = 0
    /\ resolveIdle = 0
    /\ onError = FALSE
    /\ added = 0
    /\ inFlight = {}
    /\ settled = {}
    /\ resolved = {}
    /\ nextPromise = 1
    /\ startOrder = <<>>
    /\ completed = {}
    /\ dropped = {}
    /\ errorCalls = [t \in TaskIds |-> 0]
    /\ failedHandled = {}
    /\ watched = NoPromise
    /\ idleSeen = FALSE
    /\ addedSince = FALSE
    /\ thrown = {}
    /\ resumeStarts = 0

\* The state right after throttle(func, wait, {leading, trailing}).
ThrottleCreated(w, l, t) ==
    /\ wait = w
    /\ leading = l
    /\ trailing = t
    /\ now = 0
    /\ inThrottle = FALSE
    /\ lastFn = FALSE
    /\ lastTime = NoTime
    /\ timeoutId = NoTimer
    /\ timerCall = 0
    /\ timers = {}
    /\ calls = 0
    /\ invocations = <<>>
    /\ cancelled = FALSE
    /\ openedAt = NoTime
    /\ inWindow = 0
    /\ cancelledAt = 0

\* The state after the first render of useSomeHook, the caller holding the
\* increment function of that render.
HookRendered ==
    /\ count = 0
    /\ pendingCount = NoUpdate
    /\ heldCount = 0
    /\ countBefore = 0
    /\ callsSince = 0

\* The state after retryOperation(m, operation, ...args) has run up to its
\* first await: operation was called once and is pending, or, with no
\* iteration to run, the loop was skipped and the undefined lastError thrown.
RetryCalled(m) ==
    /\ maxRetries = m
    /\ loopI = 0
    /\ lastError = Undefined
    /\ attempts = <<>>
    /\ delays = <<>>
    /\ IF 0 <= m
       THEN /\ retryPc = "awaiting"
            /\ invoked = 1
            /\ outcome = Pending
       ELSE /\ retryPc = "threw"
            /\ invoked = 0
            /\ outcome = [kind |-> "threw", val |-> Undefined]

\* The state after the first render of <Form />.
FormRendered ==
    /\ inputString = <<>>
    /\ list = <<>>

Init ==
    /\ \E c \in 1..MaxConcurrency : QueueCreated(c)
    /\ ThrottleCreated(1, TRUE, TRUE)
    /\ HookRendered
    /\ FormRendered
    /\ RetryCalled(0)

\* add(taskFn) that only pushes the task (no runNext).
addEnqueueOnly(thr) ==
    /\ added < MaxTasks
    /\ added' = added + 1
    /\ taskQueue' = Append(taskQueue, added + 1)
    /\ idlePromise' = nextPromise
    /\ resolveIdle' = nextPromise
    /\ nextPromise' = nextPromise + 1
    /\ addedSince' = (watched # NoPromise)
    /\ UNCHANGED <<concurrency, runningTasks, isPaused, onError, inFlight,
                   settled, resolved, startOrder, completed, dropped,
                   errorCalls, failedHandled, thrown, watched>>
    /\ UNCHANGED resumeStarts
    /\ Observe
    /\ UNCHANGED <<throttleVars, reactVars, retryVars>>

\* add(taskFn) with a function: push, runNext, then replace the idle promise.
\* When runNext throws, the exception leaves add() before the replacement.
add(thr) ==
    /\ added < MaxTasks
    /\ LET t == added + 1
           s == runNext(thr, isPaused, [RunState EXCEPT !.q = Append(taskQueue, t)])
       IN /\ added' = t
          /\ taskQueue' = s.q
          /\ runningTasks' = s.n
          /\ inFlight' = s.fl
          /\ startOrder' = s.so
          /\ NoteThrow(s)
          /\ IF s.threw
             THEN UNCHANGED <<idlePromise, resolveIdle, nextPromise>>
             ELSE /\ idlePromise' = nextPromise
                  /\ resolveIdle' = nextPromise
                  /\ nextPromise' = nextPromise + 1
          /\ addedSince' = (watched # NoPromise)
    /\ UNCHANGED <<concurrency, isPaused, onError, settled, resolved, completed,
                   dropped, errorCalls, watched>>
    /\ UNCHANGED resumeStarts
    /\ Observe
    /\ UNCHANGED <<throttleVars, reactVars, retryVars>>

\* add(taskFn) with something that is not a function: throws, changes nothing.
addInvalid ==
    /\ UNCHANGED <<concurrency, taskQueue, runningTasks, isPaused, idlePromise,
                   resolveIdle, onError, added, inFlight, settled, resolved,
                   nextPromise, startOrder, completed, dropped, errorCalls,
                   failedHandled, thrown, watched, addedSince>>
    /\ UNCHANGED resumeStarts
    /\ Observe
    /\ UNCHANGED <<throttleVars, reactVars, retryVars>>

\* onIdle(): a fresh resolved promise when idle, the stored idlePromise otherwise.
\* The call is either the watched one (the first, w = TRUE) or any other.
onIdle(w) ==
    /\ w => watched = NoPromise
    /\ IF runningTasks = 0 /\ Len(taskQueue) = 0
       THEN watched' = IF w THEN AlreadyResolved ELSE watched
       ELSE watched' = IF w THEN idlePromise ELSE watched
    /\ UNCHANGED resolved
    /\ UNCHANGED <<concurrency, taskQueue, runningTasks, isPaused, idlePromise,
                   resolveIdle, onError, added, inFlight, settled, nextPromise,
                   startOrder, completed, dropped, errorCalls, failedHandled,
                   thrown, addedSince>>
    /\ UNCHANGED resumeStarts
    /\ Observe
    /\ UNCHANGED <<throttleVars, reactVars, retryVars>>

\* queue.onError = handler (h = TRUE) or a non-function (h = FALSE).
setOnError(h) ==
    /\ onError # h
    /\ onError' = h
    /\ UNCHANGED <<concurrency, taskQueue, runningTasks, isPaused, idlePromise,
                   resolveIdle, added, inFlight, settled, resolved, nextPromise,
                   startOrder, completed, dropped, errorCalls,
                   failedHandled, thrown, watched, addedSince>>
    /\ UNCHANGED resumeStarts
    /\ Observe
    /\ UNCHANGED <<throttleVars, reactVars, retryVars>>

pause ==
    /\ isPaused' = TRUE
    /\ UNCHANGED <<concurrency, taskQueue, runningTasks, idlePromise,
                   resolveIdle, onError, added, inFlight, settled, resolved,
                   nextPromise, startOrder, completed, dropped, errorCalls,
                   failedHandled, thrown, watched, addedSince>>
    /\ UNCHANGED resumeStarts
    /\ Observe
    /\ UNCHANGED <<throttleVars, reactVars, retryVars>>

\* resume(): only a paused queue is touched; the flag is cleared before runNext.
resume(thr) ==
    /\ IF isPaused
       THEN LET s == runNext(thr, FALSE, RunState)
            IN /\ isPaused' = FALSE
               /\ taskQueue' = s.q
               /\ runningTasks' = s.n
               /\ inFlight' = s.fl
               /\ startOrder' = s.so
               /\ resumeStarts' = IF Len(s.so) - Len(startOrder) > resumeStarts
                                 THEN Len(s.so) - Len(startOrder) ELSE resumeStarts
               /\ NoteThrow(s)
       ELSE /\ UNCHANGED <<isPaused, taskQueue, runningTasks, inFlight,
                           startOrder, failedHandled, thrown, resumeStarts>>
    /\ UNCHANGED <<concurrency, idlePromise, resolveIdle, onError, added,
                   settled, resolved, nextPromise, completed, dropped,
                   errorCalls, watched, addedSince>>
    /\ Observe
    /\ UNCHANGED <<throttleVars, reactVars, retryVars>>

\* clear() that also forgets the running tasks.
clearEverything ==
    /\ taskQueue' = <<>>
    /\ dropped' = dropped \cup Range(taskQueue)
    /\ runningTasks' = 0
    /\ inFlight' = {}
    /\ settled' = {}
    /\ UNCHANGED <<concurrency, isPaused, idlePromise,
                   resolveIdle, onError, added, resolved,
                   nextPromise, startOrder, completed, errorCalls,
                   failedHandled, thrown, watched, addedSince>>
    /\ UNCHANGED resumeStarts
    /\ Observe
    /\ UNCHANGED <<throttleVars, reactVars, retryVars>>

\* clear(): taskQueue.length = 0.
clear ==
    /\ taskQueue' = <<>>
    /\ dropped' = dropped \cup Range(taskQueue)
    /\ UNCHANGED <<concurrency, runningTasks, isPaused, idlePromise,
                   resolveIdle, onError, added, inFlight, settled, resolved,
                   nextPromise, startOrder, completed, errorCalls,
                   failedHandled, thrown, watched, addedSince>>
    /\ UNCHANGED resumeStarts
    /\ Observe
    /\ UNCHANGED <<throttleVars, reactVars, retryVars>>

\* A promise chain whose finally handler is skipped after a rejection.
settleRejectionSkipsFinally(t, rejects) ==
    /\ t \in inFlight
    /\ inFlight' = inFlight \ {t}
    /\ settled' = IF rejects THEN settled ELSE settled \cup {t}
    /\ IF rejects
       THEN IF onError
            THEN /\ errorCalls' = [errorCalls EXCEPT ![t] = @ + 1]
                 /\ failedHandled' = failedHandled \cup {t}
            ELSE UNCHANGED <<errorCalls, failedHandled>>
       ELSE UNCHANGED <<errorCalls, failedHandled>>
    /\ UNCHANGED <<concurrency, taskQueue, runningTasks, isPaused, idlePromise,
                   resolveIdle, onError, added, resolved, nextPromise,
                   startOrder, completed, dropped, watched, addedSince, thrown>>
    /\ UNCHANGED resumeStarts
    /\ Observe
    /\ UNCHANGED <<throttleVars, reactVars, retryVars>>

\* The promise of a started task settles and its then/catch handler runs:
\* a rejection goes to onError when that is a function, else to console.error.
settle(t, rejects) ==
    /\ t \in inFlight
    /\ inFlight' = inFlight \ {t}
    /\ settled' = settled \cup {t}
    /\ IF rejects
       THEN IF onError
            THEN /\ errorCalls' = [errorCalls EXCEPT ![t] = @ + 1]
                 /\ failedHandled' = failedHandled \cup {t}
            ELSE UNCHANGED <<errorCalls, failedHandled>>
       ELSE UNCHANGED <<errorCalls, failedHandled>>
    /\ UNCHANGED <<concurrency, taskQueue, runningTasks, isPaused, idlePromise,
                   resolveIdle, onError, added, resolved, nextPromise,
                   startOrder, completed, dropped, watched, addedSince, thrown>>
    /\ UNCHANGED resumeStarts
    /\ Observe
    /\ UNCHANGED <<throttleVars, reactVars, retryVars>>

\* The finally handler: free the slot, resolve the idle promise when nothing
\* runs and nothing is pending, then runNext.
finally(t, thr) ==
    /\ t \in settled
    /\ settled' = settled \ {t}
    /\ completed' = completed \cup {t}
    /\ LET n1 == runningTasks - 1
           s == runNext(thr, isPaused, [RunState EXCEPT !.n = n1])
       IN /\ resolved' = IF n1 = 0 /\ Len(taskQueue) = 0
                         THEN resolved \cup {resolveIdle} ELSE resolved
          /\ taskQueue' = s.q
          /\ runningTasks' = s.n
          /\ inFlight' = s.fl
          /\ startOrder' = s.so
          /\ NoteThrow(s)
    /\ UNCHANGED <<concurrency, isPaused, idlePromise, resolveIdle, onError,
                   added, nextPromise, dropped, errorCalls,
                   watched, addedSince>>
    /\ UNCHANGED resumeStarts
    /\ Observe
    /\ UNCHANGED <<throttleVars, reactVars, retryVars>>

Next ==
    \/ \E thr \in Throwers : add(thr)
    \/ addInvalid
    \/ \E w \in BOOLEAN : onIdle(w)
    \/ \E h \in BOOLEAN : setOnError(h)
    \/ pause
    \/ \E thr \in Throwers : resume(thr)
    \/ clear
    \/ \E t \in TaskIds, rejects \in BOOLEAN : settle(t, rejects)
    \/ \E t \in TaskIds, thr \in Throwers : finally(t, thr)

Spec == Init /\ [][Next]_vars

\* ---------------------------------------------------------------- throttle

\* The timer throttled.timeoutId names (pending or not).
NamedTimer == [deadline |-> timeoutId, call |-> timerCall]

\* clearTimeout(throttled.timeoutId): the pending timers without the named one.
clearTimeout == timers \ {NamedTimer}

\* func.apply(context, args) with the context and args of call c.
Invoke(c, edge) == Append(invocations, [at |-> now, call |-> c, edge |-> edge])

\* throttled with the leading option ignored: the opening call always invokes.
throttledAlwaysLeading ==
    /\ calls < MaxCalls
    /\ calls' = calls + 1
    /\ IF ~inThrottle
       THEN /\ invocations' = Invoke(calls + 1, "leading")
            /\ inThrottle' = TRUE
            /\ UNCHANGED <<lastFn, lastTime>>
       ELSE /\ lastFn' = TRUE
            /\ lastTime' = now
            /\ UNCHANGED <<invocations, inThrottle>>
    /\ timeoutId' = now + wait
    /\ timerCall' = calls + 1
    /\ timers' = clearTimeout \cup {[deadline |-> now + wait, call |-> calls + 1]}
    /\ openedAt' = IF inThrottle THEN openedAt ELSE now
    /\ inWindow' = IF inThrottle THEN inWindow + 1 ELSE 0
    /\ UNCHANGED <<leading, trailing, wait, now, cancelled, cancelledAt>>
    /\ UNCHANGED <<queueVars, reactVars, retryVars>>

\* throttled with a call inside the period not recorded in lastFn.
throttledDropsLater ==
    /\ calls < MaxCalls
    /\ calls' = calls + 1
    /\ IF ~inThrottle
       THEN /\ IF leading
               THEN /\ invocations' = Invoke(calls + 1, "leading")
                    /\ UNCHANGED <<lastFn, lastTime>>
               ELSE /\ lastFn' = TRUE
                    /\ lastTime' = now
                    /\ UNCHANGED invocations
            /\ inThrottle' = TRUE
       ELSE UNCHANGED <<lastFn, lastTime, invocations, inThrottle>>
    /\ timeoutId' = now + wait
    /\ timerCall' = calls + 1
    /\ timers' = clearTimeout \cup {[deadline |-> now + wait, call |-> calls + 1]}
    /\ openedAt' = IF inThrottle THEN openedAt ELSE now
    /\ inWindow' = IF inThrottle THEN inWindow + 1 ELSE 0
    /\ UNCHANGED <<leading, trailing, wait, now, cancelled, cancelledAt>>
    /\ UNCHANGED <<queueVars, reactVars, retryVars>>

\* throttled with the timer of the opening call kept by the calls inside the
\* period (no clearTimeout, no new closure over context and args).
throttledKeepsTimer ==
    /\ calls < MaxCalls
    /\ calls' = calls + 1
    /\ IF ~inThrottle
       THEN /\ IF leading
               THEN /\ invocations' = Invoke(calls + 1, "leading")
                    /\ UNCHANGED <<lastFn, lastTime>>
               ELSE /\ lastFn' = TRUE
                    /\ lastTime' = now
                    /\ UNCHANGED invocations
            /\ inThrottle' = TRUE
            /\ timeoutId' = now + wait
            /\ timerCall' = calls + 1
            /\ timers' = clearTimeout \cup {[deadline |-> now + wait, call |-> calls + 1]}
       ELSE /\ lastFn' = TRUE
            /\ lastTime' = now
            /\ UNCHANGED <<invocations, inThrottle, timeoutId, timerCall, timers>>
    /\ openedAt' = IF inThrottle THEN openedAt ELSE now
    /\ inWindow' = IF inThrottle THEN inWindow + 1 ELSE 0
    /\ UNCHANGED <<leading, trailing, wait, now, cancelled, cancelledAt>>
    /\ UNCHANGED <<queueVars, reactVars, retryVars>>

\* throttled without clearTimeout: the earlier timer stays pending.
throttledLeavesOldTimer ==
    /\ calls < MaxCalls
    /\ calls' = calls + 1
    /\ IF ~inThrottle
       THEN /\ IF leading
               THEN /\ invocations' = Invoke(calls + 1, "leading")
                    /\ UNCHANGED <<lastFn, lastTime>>
               ELSE /\ lastFn' = TRUE
                    /\ lastTime' = now
                    /\ UNCHANGED invocations
            /\ inThrottle' = TRUE
       ELSE /\ lastFn' = TRUE
            /\ lastTime' = now
            /\ UNCHANGED <<invocations, inThrottle>>
    /\ timeoutId' = now + wait
    /\ timerCall' = calls + 1
    /\ timers' = timers \cup {[deadline |-> now + wait, call |-> calls + 1]}
    /\ openedAt' = IF inThrottle THEN openedAt ELSE now
    /\ inWindow' = IF inThrottle THEN inWindow + 1 ELSE 0
    /\ UNCHANGED <<leading, trailing, wait, now, cancelled, cancelledAt>>
    /\ UNCHANGED <<queueVars, reactVars, retryVars>>

\* throttled(...args): the call number calls + 1.
throttled ==
    /\ calls < MaxCalls
    /\ calls' = calls + 1
    /\ IF ~inThrottle
       THEN /\ IF leading
               THEN /\ invocations' = Invoke(calls + 1, "leading")
                    /\ UNCHANGED <<lastFn, lastTime>>
               ELSE /\ lastFn' = TRUE
                    /\ lastTime' = now
                    /\ UNCHANGED invocations
            /\ inThrottle' = TRUE
       ELSE /\ lastFn' = TRUE
            /\ lastTime' = now
            /\ UNCHANGED <<invocations, inThrottle>>
    \* clearTimeout, then setTimeout(callback, wait) closing over this call
    /\ timeoutId' = now + wait
    /\ timerCall' = calls + 1
    /\ timers' = clearTimeout \cup {[deadline |-> now + wait, call |-> calls + 1]}
    /\ openedAt' = IF inThrottle THEN openedAt ELSE now
    /\ inWindow' = IF inThrottle THEN inWindow + 1 ELSE 0
    /\ UNCHANGED <<leading, trailing, wait, now, cancelled, cancelledAt>>
    /\ UNCHANGED <<queueVars, reactVars, retryVars>>

\* The timer callback with the trailing option ignored.
timerFiresIgnoringTrailing ==
    /\ \E tm \in timers :
        /\ now >= tm.deadline
        /\ IF lastFn
           THEN /\ invocations' = Invoke(tm.call, "trailing")
                /\ lastFn' = FALSE
           ELSE UNCHANGED <<invocations, lastFn>>
        /\ timers' = timers \ {tm}
        /\ timeoutId' = IF tm = NamedTimer THEN NoTimer ELSE timeoutId
    /\ inThrottle' = FALSE
    /\ lastTime' = NoTime
    /\ openedAt' = NoTime
    /\ inWindow' = 0
    /\ UNCHANGED <<leading, trailing, wait, now, timerCall, calls, cancelled,
                   cancelledAt>>
    /\ UNCHANGED <<queueVars, reactVars, retryVars>>

\* The timer callback that leaves lastFn set after the trailing invocation.
timerFiresKeepsMarker ==
    /\ \E tm \in timers :
        /\ now >= tm.deadline
        /\ IF trailing /\ lastFn
           THEN invocations' = Invoke(tm.call, "trailing")
           ELSE UNCHANGED invocations
        /\ timers' = timers \ {tm}
        /\ timeoutId' = IF tm = NamedTimer THEN NoTimer ELSE timeoutId
    /\ inThrottle' = FALSE
    /\ lastTime' = NoTime
    /\ openedAt' = NoTime
    /\ inWindow' = 0
    /\ UNCHANGED <<leading, trailing, wait, now, timerCall, calls, cancelled,
                   cancelledAt, lastFn>>
    /\ UNCHANGED <<queueVars, reactVars, retryVars>>

\* The timer callback; a timer fires at its deadline or later.
timerFires ==
    /\ \E tm \in timers :
        /\ now >= tm.deadline
        /\ IF trailing /\ lastFn
           THEN /\ invocations' = Invoke(tm.call, "trailing")
                /\ lastFn' = FALSE
           ELSE UNCHANGED <<invocations, lastFn>>
        /\ timers' = timers \ {tm}
        /\ timeoutId' = IF tm = NamedTimer THEN NoTimer ELSE timeoutId
    /\ inThrottle' = FALSE
    /\ lastTime' = NoTime
    /\ openedAt' = NoTime
    /\ inWindow' = 0
    /\ UNCHANGED <<leading, trailing, wait, now, timerCall, calls, cancelled,
                   cancelledAt>>
    /\ UNCHANGED <<queueVars, reactVars, retryVars>>

\* cancel() that leaves the timer and the pending trailing call in place.
cancelKeepsPending ==
    /\ cancelled' = TRUE
    /\ cancelledAt' = calls
    /\ UNCHANGED <<leading, trailing, wait, now, inThrottle, lastFn, lastTime,
                   timeoutId, timerCall, timers, calls, invocations, openedAt,
                   inWindow>>
    /\ UNCHANGED <<queueVars, reactVars, retryVars>>

\* throttled.cancel()
cancel ==
    /\ timeoutId' = NoTimer
    /\ timers' = clearTimeout
    /\ inThrottle' = FALSE
    /\ lastFn' = FALSE
    /\ lastTime' = NoTime
    /\ cancelled' = TRUE
    /\ cancelledAt' = calls
    /\ openedAt' = NoTime
    /\ inWindow' = 0
    /\ UNCHANGED <<leading, trailing, wait, now, timerCall, calls, invocations>>
    /\ UNCHANGED <<queueVars, reactVars, retryVars>>

\* One ms passes.
tick ==
    /\ now < MaxTime
    /\ now' = now + 1
    /\ UNCHANGED <<leading, trailing, wait, inThrottle, lastFn, lastTime,
                   timeoutId, timerCall, timers, calls, invocations, cancelled,
                   openedAt, inWindow, cancelledAt>>
    /\ UNCHANGED <<queueVars, reactVars, retryVars>>

ThrottleInit ==
    /\ QueueCreated(1)
    /\ \E w \in 1..MaxWait, l \in BOOLEAN, t \in BOOLEAN : ThrottleCreated(w, l, t)
    /\ HookRendered
    /\ FormRendered
    /\ RetryCalled(0)

ThrottleNext ==
    \/ throttled
    \/ timerFires
    \/ cancel
    \/ tick

ThrottleSpec == ThrottleInit /\ [][ThrottleNext]_vars

\* ------------------------------------------------------------- useSomeHook

\* increment(), called on the function the caller holds: setCount(count + 1)
\* with the count of the render that made that function.
increment ==
    /\ heldCount < MaxCount
    /\ pendingCount' = heldCount + 1
    /\ countBefore' = count
    /\ callsSince' = IF callsSince < 2 THEN callsSince + 1 ELSE 2
    /\ UNCHANGED <<count, heldCount>>
    /\ UNCHANGED <<queueVars, throttleVars, formVars, retryVars>>

\* A render of the hook (rerender(), or the render React schedules after
\* setCount): useState returns the latest value set.
rerender ==
    /\ count' = IF pendingCount = NoUpdate THEN count ELSE pendingCount
    /\ pendingCount' = NoUpdate
    /\ callsSince' = 0
    /\ UNCHANGED <<heldCount, countBefore>>
    /\ UNCHANGED <<queueVars, throttleVars, formVars, retryVars>>

\* The caller reads result.current again and holds the increment function of
\* the latest render.
readResult ==
    /\ heldCount # count
    /\ heldCount' = count
    /\ UNCHANGED <<count, pendingCount, countBefore, callsSince>>
    /\ UNCHANGED <<queueVars, throttleVars, formVars, retryVars>>

HookInit ==
    /\ QueueCreated(1)
    /\ ThrottleCreated(1, TRUE, TRUE)
    /\ HookRendered
    /\ FormRendered
    /\ RetryCalled(0)

HookNext ==
    \/ increment
    \/ rerender
    \/ readResult

HookSpec == HookInit /\ [][HookNext]_vars

\* -------------------------------------------------------------------- Form

\* String.prototype.trim for the characters of Chars.
RECURSIVE trimStart(_)
trimStart(str) ==
    IF str # <<>> /\ Head(str) = " " THEN trimStart(Tail(str)) ELSE str

RECURSIVE trimEnd(_)
trimEnd(str) ==
    IF str # <<>> /\ str[Len(str)] = " "
    THEN trimEnd(SubSeq(str, 1, Len(str) - 1))
    ELSE str

trim(str) == trimEnd(trimStart(str))

\* A change event that also appends the typed string to the list.
changeAddsItem(v) ==
    /\ Len(list) < MaxItems
    /\ inputString' = v
    /\ list' = Append(list, v)
    /\ UNCHANGED <<queueVars, throttleVars, hookVars, retryVars>>

\* onChange of the input box: setInputString(e.target.value), then the render.
change(v) ==
    /\ inputString' = v
    /\ UNCHANGED list
    /\ UNCHANGED <<queueVars, throttleVars, hookVars, retryVars>>

\* onSubmit of the form, then the render.
handleSubmit ==
    /\ IF Len(trim(inputString)) < 1
       THEN /\ inputString' = <<>>
            /\ UNCHANGED list
       ELSE /\ Len(list) < MaxItems
            /\ list' = Append(list, inputString)
            /\ inputString' = <<>>
    /\ UNCHANGED <<queueVars, throttleVars, hookVars, retryVars>>

FormInit ==
    /\ QueueCreated(1)
    /\ ThrottleCreated(1, TRUE, TRUE)
    /\ HookRendered
    /\ FormRendered
    /\ RetryCalled(0)

FormNext ==
    \/ \E v \in Strings : change(v)
    \/ handleSubmit

FormSpec == FormInit /\ [][FormNext]_vars

\* ---------------------------------------------------------- retryOperation

RECURSIVE pow(_, _)
pow(b, n) == IF n = 0 THEN 1 ELSE b * pow(b, n - 1)

\* The awaited operation(...args) resolves to v: return it.
operationResolves(v) ==
    /\ retryPc = "awaiting"
    /\ attempts' = Append(attempts, [kind |-> "returned", val |-> v])
    /\ outcome' = [kind |-> "returned", val |-> v]
    /\ retryPc' = "returned"
    /\ UNCHANGED <<maxRetries, loopI, lastError, invoked, delays>>
    /\ UNCHANGED <<queueVars, throttleVars, reactVars>>

\* The catch block keeping the first error instead of the last.
operationFailsKeepsFirst(e) ==
    /\ retryPc = "awaiting"
    /\ attempts' = Append(attempts, [kind |-> "threw", val |-> e])
    /\ lastError' = IF lastError = Undefined THEN e ELSE lastError
    /\ IF loopI < maxRetries
       THEN /\ delays' = Append(delays, pow(2, loopI) * 1000)
            /\ retryPc' = "backoff"
            /\ UNCHANGED <<loopI, outcome>>
       ELSE /\ loopI' = loopI + 1
            /\ outcome' = [kind |-> "threw", val |-> lastError']
            /\ retryPc' = "threw"
            /\ UNCHANGED delays
    /\ UNCHANGED <<maxRetries, invoked>>
    /\ UNCHANGED <<queueVars, throttleVars, reactVars>>

\* The awaited operation(...args) throws or rejects with e: remember e, then
\* start the backoff delay, or after the last iteration leave the loop and
\* throw lastError.
operationFails(e) ==
    /\ retryPc = "awaiting"
    /\ attempts' = Append(attempts, [kind |-> "threw", val |-> e])
    /\ lastError' = e
    /\ IF loopI < maxRetries
       THEN /\ delays' = Append(delays, pow(2, loopI) * 1000)
            /\ retryPc' = "backoff"
            /\ UNCHANGED <<loopI, outcome>>
       ELSE /\ loopI' = loopI + 1
            /\ outcome' = [kind |-> "threw", val |-> e]
            /\ retryPc' = "threw"
            /\ UNCHANGED delays
    /\ UNCHANGED <<maxRetries, invoked>>
    /\ UNCHANGED <<queueVars, throttleVars, reactVars>>

\* The delay resolves: next iteration, operation(...args) is called again.
delayElapses ==
    /\ retryPc = "backoff"
    /\ loopI' = loopI + 1
    /\ loopI' <= maxRetries
    /\ invoked' = invoked + 1
    /\ retryPc' = "awaiting"
    /\ UNCHANGED <<maxRetries, lastError, outcome, attempts, delays>>
    /\ UNCHANGED <<queueVars, throttleVars, reactVars>>

RetryInit ==
    /\ QueueCreated(1)
    /\ ThrottleCreated(1, TRUE, TRUE)
    /\ HookRendered
    /\ FormRendered
    /\ \E m \in -1..MaxRetries : RetryCalled(m)

RetryNext ==
    \/ \E v \in Values : operationResolves(v)
    \/ \E e \in Errors : operationFails(e)
    \/ delayElapses

RetrySpec == RetryInit /\ [][RetryNext]_vars

\* ------------------------------------------------------------ properties

IsResolved(p) == p = AlreadyResolved \/ p \in resolved

\* C1: the number of running tasks never exceeds the configured concurrency
\* (the counter, and the started tasks that have not finished).
RunningAtMostConcurrency ==
    /\ runningTasks <= concurrency
    /\ Cardinality(inFlight \cup settled) <= concurrency

\* C1 witness: the queue is full and a task waits for a slot after another
\* task has finished.
W_FullWithPending ==
    /\ runningTasks = concurrency
    /\ Len(taskQueue) > 0
    /\ completed # {}

\* C2: tasks are started in submission order (task ids count the add() calls).
StartedInFifoOrder ==
    \A i, j \in 1..Len(startOrder) : i < j => startOrder[i] < startOrder[j]

\* C2 witness: three tasks were started, one of them after a completion and
\* one of them by resume().
W_FifoStarts ==
    /\ Len(startOrder) = 3
    /\ completed # {}
    /\ resumeStarts > 0

\* C3: a promise returned by onIdle() is resolved exactly when the queue has
\* been idle (nothing running, nothing pending) at or after the onIdle() call.
OnIdleResolvedExactlyWhenIdle ==
    watched # NoPromise => (IsResolved(watched) <=> idleSeen)

\* C4: once every task passed to add() has completed, a promise that onIdle()
\* returned before some of those add() calls is resolved.
OnIdleCoversLaterAdds ==
    (addedSince /\ completed = 1..added) => IsResolved(watched)

\* C5: while the queue is paused no task is started (add() only enqueues, a
\* finishing task starts no successor); pause() leaves the running tasks
\* alone, and a task finishing under pause frees its slot.
PausedStartsNothing ==
    [][ /\ (isPaused /\ isPaused') =>
            /\ startOrder' = startOrder
            /\ (added' # added => taskQueue' = Append(taskQueue, added'))
            /\ (completed' # completed =>
                    /\ runningTasks' = runningTasks - 1
                    /\ taskQueue' = taskQueue)
        /\ pause =>
            /\ isPaused'
            /\ inFlight' = inFlight /\ settled' = settled
            /\ runningTasks' = runningTasks /\ taskQueue' = taskQueue
      ]_vars

\* C5 witness: paused, a task has finished, a slot is free and a task waits.
W_PausedWithFreeSlot ==
    /\ isPaused
    /\ completed # {}
    /\ runningTasks < concurrency
    /\ Len(taskQueue) > 0
    /\ inFlight # {}

\* C6: a resume() of a paused queue that returns has started
\* min(pending, concurrency - running) tasks, oldest first, and cleared the flag.
ResumeFillsCapacity ==
    [][ ((\E thr \in Throwers : resume(thr)) /\ isPaused /\ thrown' = thrown) =>
            LET k == Min(Len(taskQueue), concurrency - runningTasks)
            IN /\ ~isPaused'
               /\ startOrder' = startOrder \o SubSeq(taskQueue, 1, k)
               /\ taskQueue' = SubSeq(taskQueue, k + 1, Len(taskQueue))
               /\ runningTasks' = runningTasks + k
               /\ inFlight' = inFlight \cup Range(SubSeq(taskQueue, 1, k))
      ]_vars

\* C6 witness: one resume() call started two tasks, none of which threw.
W_ResumeStartedTwo ==
    /\ ~isPaused
    /\ resumeStarts >= 2
    /\ thrown = {}
    /\ Len(startOrder) = 2

\* C7: clear() empties the pending list and changes neither the running
\* count, the paused flag nor the running tasks; a dropped task is never started.
ClearDropsPendingOnly ==
    /\ [][ clear =>
            /\ taskQueue' = <<>>
            /\ runningTasks' = runningTasks
            /\ isPaused' = isPaused
            /\ inFlight' = inFlight
            /\ settled' = settled
            /\ startOrder' = startOrder
         ]_vars
    /\ [](dropped \cap Range(startOrder) = {})

\* C7 witness: tasks were dropped while another ran, and that one finished.
W_ClearedWhileRunning ==
    /\ dropped # {}
    /\ completed # {}
    /\ \E t \in completed : \E d \in dropped : t < d
    /\ added = MaxTasks

\* C8: onError is invoked exactly once for every task that failed (threw or
\* rejected) while onError was set, and never more than once per task.
OnErrorOncePerFailingTask ==
    \A t \in TaskIds :
        /\ errorCalls[t] <= 1
        /\ t \in failedHandled => errorCalls[t] = 1

\* C9: without cancel(), any two invocations of func are at least wait ms apart.
InvocationsWaitApart ==
    ~cancelled =>
        \A i \in 1..Len(invocations) - 1 :
            invocations[i + 1].at - invocations[i].at >= wait

CeilDiv(a, b) == (a + b - 1) \div b

\* C10: without cancel(), every window [a, a + T) of T ms holds at most
\* ceil(T / wait) + 1 invocations of func.
InvocationsPerInterval ==
    ~cancelled =>
        \A a \in 0..MaxTime : \A T \in 1..(MaxTime + 1) :
            Cardinality({i \in 1..Len(invocations) :
                            /\ invocations[i].at >= a
                            /\ invocations[i].at < a + T})
                <= CeilDiv(T, wait) + 1

\* The step is a call of the throttled function.
IsCall == calls' = calls + 1

\* The step invoked func, and Invoked is the record of that invocation.
Invokes == invocations' # invocations
Invoked == invocations'[Len(invocations')]

\* C11: a call made while not throttled invokes func at once, for that call,
\* iff leading; with leading = false every invocation comes from the timer.
LeadingCallInvokesIffLeading ==
    /\ [][ (IsCall /\ ~inThrottle) =>
            IF leading
            THEN invocations' = Append(invocations,
                     [at |-> now, call |-> calls', edge |-> "leading"])
            ELSE invocations' = invocations
         ]_vars
    /\ [](~leading =>
            \A i \in 1..Len(invocations) : invocations[i].edge = "trailing")

\* C11 witness: leading = false, the opening call was served by the timer and
\* a later call has opened the next period without an invocation.
W_TrailingOnlyServed ==
    /\ ~leading
    /\ Len(invocations) = 1
    /\ calls = 2
    /\ inThrottle
    /\ inWindow = 0

CancelDiscardsPending ==
    [][ /\ cancel => (~inThrottle' /\ ~lastFn' /\ timeoutId' = NoTimer)
        /\ Invokes => Invoked.call > cancelledAt'
        /\ (IsCall /\ cancelled /\ calls = cancelledAt) =>
            /\ inThrottle' /\ openedAt' = now /\ timeoutId' = now + wait
            /\ leading => (Invokes /\ Invoked.call = calls' /\ Invoked.at = now)
      ]_vars

\* C13 witness: call 2 waited for the trailing edge, cancel() dropped it and
\* call 3 was served at once.
W_CancelledThenServed ==
    /\ leading /\ trailing
    /\ cancelledAt = 2
    /\ calls = 3
    /\ Len(invocations) = 2
    /\ invocations[1].call = 1
    /\ invocations[2].call = 3

\* C14: a call made wait or more after the call that opened the period opens
\* a new period, and is served at once when leading, even when calls arrived
\* inside the period (whose timer is then not yet due).
PeriodHasFixedLength ==
    [][ (IsCall /\ inThrottle /\ inWindow >= 1
            /\ now >= openedAt + wait /\ now < timeoutId) =>
            /\ openedAt' = now
            /\ leading => (Invokes /\ Invoked.call = calls')
      ]_vars

\* C15: with leading and without trailing, func is invoked only by a call
\* made while not throttled, and for that call: a call made while throttled
\* is served neither at once nor by the timer.
ThrottledCallsIgnored ==
    [][ (leading /\ ~trailing) =>
            /\ (IsCall /\ inThrottle) => ~Invokes
            /\ timerFires => ~Invokes
            /\ Invokes => (IsCall /\ ~inThrottle /\ Invoked.call = calls')
      ]_vars

\* C15 witness: leading only, calls 2 and 3 came inside the period of call 1,
\* the period has ended and only call 1 was served.
W_LeadingOnlyIgnored ==
    /\ leading /\ ~trailing /\ ~cancelled
    /\ calls = 3
    /\ Len(invocations) = 1
    /\ ~inThrottle
    /\ lastFn

\* C20: the timer invokes func for the latest call received, never for an
\* earlier one.
TrailingUsesLatestCall ==
    /\ [][ (timerFires /\ Invokes) =>
            (Invoked.call = calls /\ Invoked.edge = "trailing") ]_vars
    /\ [](timeoutId # NoTimer => timerCall = calls)

\* C20 witness: the trailing invocation served call 3, the last of two calls
\* received inside the period of call 1.
W_TrailingServedLatest ==
    /\ leading /\ trailing /\ ~cancelled
    /\ calls = 3
    /\ Len(invocations) = 2
    /\ invocations[2].call = 3
    /\ invocations[2].edge = "trailing"
    /\ invocations[2].at > invocations[1].at + wait

\* The counts getRunningTasksCount() and getPendingTasksCount() return after
\* 'added' tasks were added to a fresh queue and none has completed.
CountsAfterAdds ==
    /\ runningTasks = Min(added, concurrency)
    /\ Len(taskQueue) = added - Min(added, concurrency)

\* C18: a fresh queue has the counts min(n, c) and n - min(n, c) for n = 0,
\* and every add() to an unpaused queue takes them from n to n + 1.
AddKeepsCounts ==
    /\ CountsAfterAdds
    /\ [][ (added' = added + 1 /\ ~isPaused /\ CountsAfterAdds) =>
            CountsAfterAdds' ]_vars

\* C18 witness: three tasks added to a queue of concurrency 2, none settled:
\* two run and one is pending.
W_ThreeAddedTwoRunning ==
    /\ concurrency = 2
    /\ added = 3
    /\ inFlight = {1, 2}
    /\ taskQueue = <<3>>
    /\ runningTasks = 2
    /\ completed = {} /\ settled = {} /\ dropped = {} /\ thrown = {}
    /\ ~isPaused /\ resumeStarts = 0

\* C19: the finally step of a task that rejected (its onError call is on
\* record) frees one slot and refills as for any task: nothing is started
\* under pause, otherwise the oldest pending tasks are; a finished task holds
\* no slot, the running count is the number of started unfinished tasks, and
\* tasks wait only while every slot is taken.
RejectedTaskFreesSlot ==
    /\ [][ \A t \in settled \cap failedHandled :
            (completed' = completed \cup {t}) =>
                LET k == Len(startOrder') - Len(startOrder)
                IN /\ runningTasks' = runningTasks - 1 + k
                   /\ t \notin inFlight' \cup settled'
                   /\ isPaused => (k = 0 /\ taskQueue' = taskQueue)
                   /\ (~isPaused /\ Len(taskQueue) > 0) =>
                        /\ k >= 1
                        /\ startOrder'[Len(startOrder) + 1] = Head(taskQueue)
                   /\ (~isPaused /\ thrown' = thrown) =>
                        k = Min(Len(taskQueue), concurrency - runningTasks + 1)
         ]_vars
    /\ [](completed \cap (inFlight \cup settled) = {})
    /\ [](runningTasks = Cardinality(inFlight \cup settled) + Cardinality(thrown))
    /\ []((~isPaused /\ Len(taskQueue) > 0 /\ thrown = {}) =>
            Cardinality(inFlight \cup settled) = concurrency)

\* C19 witness: task 1 rejected and finished on a queue of concurrency 1 with
\* task 2 pending; its finally step started task 2.
W_RejectedThenNextStarted ==
    /\ concurrency = 1
    /\ 1 \in completed \cap failedHandled
    /\ startOrder = <<1, 2>>
    /\ runningTasks = 1
    /\ resolved = {}
    /\ resumeStarts = 0
    /\ ~isPaused

\* C16: the count starts at 0, and a render that follows one increment() call
\* shows a count one larger than the count shown before that call.
IncrementAddsOne ==
    /\ count = 0
    /\ [][ (callsSince = 1 /\ callsSince' = 0) => count' = countBefore + 1 ]_vars

\* C17: the freshly rendered form has no list items, and a change event sets
\* the input value to the typed string and leaves the list as it was.
ChangeSetsInputOnly ==
    /\ list = <<>>
    /\ [][ \A v \in Strings :
            change(v) => (inputString' = v /\ list' = list) ]_vars

\* C17 witness: a string was typed after an item had been added: the input
\* box holds the string and the list still holds that one item.
W_TypedAfterItem ==
    /\ inputString = <<"a", " ">>
    /\ list = <<<<"a">>>>

TimerInvokesOnlyForThrottledCalls ==
    /\ [][ (leading /\ trailing /\ timerFires) =>
            /\ Invokes <=> inWindow >= 1
            /\ Len(invocations') <= Len(invocations) + 1
            /\ ~lastFn'
         ]_vars
    /\ []((leading /\ trailing) => (lastFn <=> (inThrottle /\ inWindow >= 1)))

\* C22 witness: call 2 arrived in the period of call 1 and was served by the
\* timer; call 3 was alone in its period, which ended without an invocation.
W_IsolatedCallOnce ==
    /\ leading /\ trailing /\ ~cancelled
    /\ calls = 3
    /\ Len(invocations) = 3
    /\ invocations[2].edge = "trailing"
    /\ invocations[3].edge = "leading"
    /\ invocations[3].at < now
    /\ ~inThrottle

\* C24: a clear() that empties the pending list while no task is running
\* leaves the promise returned by an earlier onIdle() resolved.
ClearResolvesIdle ==
    [][ (clear /\ Len(taskQueue) > 0 /\ runningTasks = 0
            /\ watched # NoPromise) =>
            (watched' = AlreadyResolved \/ watched' \in resolved') ]_vars

\* C23: operation is called at most maxRetries + 1 times; once a call has
\* resolved no further call is made and its value is returned; when all
\* maxRetries + 1 calls have failed the error of the last one is thrown.
RetryUntilSuccessOrLastError ==
    /\ invoked <= maxRetries + 1
    /\ \A k \in 1..Len(attempts) - 1 : attempts[k].kind = "threw"
    /\ retryPc = "returned" =>
        /\ invoked = Len(attempts)
        /\ outcome = attempts[Len(attempts)]
        /\ outcome.kind = "returned"
    /\ (retryPc = "threw" /\ maxRetries >= 0) =>
        /\ invoked = maxRetries + 1
        /\ Len(attempts) = maxRetries + 1
        /\ outcome = attempts[Len(attempts)]
        /\ outcome.kind = "threw"
    /\ retryPc \in {"awaiting", "backoff"} =>
        /\ outcome = Pending
        /\ invoked = Len(attempts) + (IF retryPc = "awaiting" THEN 1 ELSE 0)

\* C23 witness: with maxRetries = 2 all three calls failed, the last with an
\* error other than the first two, and that error was thrown.
W_ThrewLastError ==
    /\ maxRetries = 2
    /\ retryPc = "threw"
    /\ invoked = 3
    /\ attempts[1].val = "e1" /\ attempts[2].val = "e1" /\ attempts[3].val = "e2"
    /\ outcome = [kind |-> "threw", val |-> "e2"]
    /\ delays = <<1000, 2000>>

====
